---- MODULE Spec2Model ----
(***************************************************************************)
(* A model of the kidnap bundler (src/src/index.ts): the command line, the *)
(* path resolver, the type-check gate, the worklist that builds the module *)
(* graph, the writing of the artifact and the artifact's runtime loader.   *)
(*                                                                         *)
(* A path is a sequence of segments and a segment a sequence of atoms      *)
(* (<<"a", ".ts">> is the file name a.ts), so that appending an extension, *)
(* endsWith and dirname are computed on the path as the code computes them *)
(* on the string. The root directory "/" is the empty path.                *)
(***************************************************************************)
EXTENDS Naturals, Sequences, FiniteSets

\* Bounds of the model: the longest list of top-level imports of the entry
\* file and of any other file, and the deepest call stack of the loader.
MaxImports == 2
MaxDepImports == 1
MaxStack == 4

----------------------------------------------------------------------------
\* Strings and paths

Undef == <<>>

Seg(n) == <<n>>
TsName(n) == <<n, ".ts">>
JsName(n) == <<n, ".js">>
Dot == <<".">>
DotDot == <<"..">>
NodeModules == <<"node_modules">>
PackageJson == <<"package", ".json">>

Last(s) == s[Len(s)]
Front(s) == SubSeq(s, 1, Len(s) - 1)

\* path.dirname of an absolute path; dirname("/") is "/".
dirname(p) == IF p = <<>> THEN <<>> ELSE Front(p)

\* path.resolve(base, rel) for an absolute base and a relative rel.
RECURSIVE resolve(_, _)
resolve(base, rel) ==
  IF rel = <<>> THEN base
  ELSE IF Head(rel) = Dot THEN resolve(base, Tail(rel))
  ELSE IF Head(rel) = DotDot THEN resolve(dirname(base), Tail(rel))
  ELSE resolve(Append(base, Head(rel)), Tail(rel))

\* String.prototype.endsWith on the text of a path.
endsWith(p, ext) == p # <<>> /\ Last(Last(p)) = ext

\* String concatenation path + ext: the extension joins the last segment
\* ("/" + ".ts" is the file "/.ts").
PlusExt(p, ext) ==
  IF p = <<>> THEN <<<<ext>>>> ELSE Append(Front(p), Append(Last(p), ext))

\* String.prototype.startsWith('.') on a specifier value.
startsWithDot(v) == v # <<>> /\ Head(Head(v)) \in {".", "..", ".ts", ".js"}

----------------------------------------------------------------------------
\* Import specifier tokens as they stand in the source text

\* q is the form of the token: a double-quoted literal, a single-quoted
\* literal, a numeric literal or an identifier; v is the value a string
\* literal denotes.
DQ(v) == [q |-> "dq", v |-> v]
SQ(v) == [q |-> "sq", v |-> v]
NumTok == [q |-> "num", v |-> Undef]
IdentTok == [q |-> "ident", v |-> Undef]

IsStringLiteral(tok) == tok.q \in {"dq", "sq"}

\* JSON.parse of the token text: "ok" with the string value for a
\* double-quoted literal, "nonstring" for a number, "throw" (SyntaxError)
\* for everything else, single-quoted literals included.
JSONParse(tok) ==
  CASE tok.q = "dq" -> [r |-> "ok", v |-> tok.v]
    [] tok.q = "num" -> [r |-> "nonstring", v |-> Undef]
    [] OTHER -> [r |-> "throw", v |-> Undef]

----------------------------------------------------------------------------
\* The names of the modelled file systems

P == Seg("p")
Cwd == <<P>>
Fa == <<P, TsName("a")>>
Fb == <<P, TsName("b")>>
Fc == <<P, TsName("c")>>
DirB == <<P, Seg("b")>>
Fbi == <<P, Seg("b"), TsName("index")>>
NmP == <<P, NodeModules>>
NmRoot == <<NodeModules>>
Kjs(nm) == Append(nm, JsName("k"))
Kdir(nm) == Append(nm, Seg("k"))
Kman(nm) == Append(Kdir(nm), PackageJson)
Km(nm) == Append(Kdir(nm), JsName("m"))
Klib(nm) == Append(Kdir(nm), JsName("lib"))
Kidx(nm) == Append(Kdir(nm), JsName("index"))

\* Specifier values: "./a", "./b", "./c", "./b.ts", "./b/index", "../a",
\* "./x" (no such file), "k" (a package), and the manifest values "m.js"
\* and "lib.js".
RelA == <<Dot, Seg("a")>>
RelB == <<Dot, Seg("b")>>
RelC == <<Dot, Seg("c")>>
RelBts == <<Dot, TsName("b")>>
RelBindex == <<Dot, Seg("b"), Seg("index")>>
UpA == <<DotDot, Seg("a")>>
RelX == <<Dot, Seg("x")>>
PkgK == <<Seg("k")>>
ValM == <<JsName("m")>>
ValLib == <<JsName("lib")>>

\* Command-line words.
DashO == <<Seg("-o")>>
ArgA == <<Seg("a")>>
ArgX == <<Seg("x")>>
ArgOut == <<Seg("out")>>
Argv0 == <<<<Seg("node")>>, <<Seg("kidnap")>>>>
DefaultArgv == Argv0 \o <<ArgA, DashO, ArgOut>>

SeqsUpTo(S, n) == UNION {[1..k -> S] : k \in 0..n}

\* A world is what the program is started on: the regular files, the
\* directories besides the ancestors of the files, the top-level import
\* tokens of each source file, the fields of each package manifest and the
\* command line.
World(files, dirs, imports, json, argv) ==
  [files |-> files, dirs |-> dirs, src |-> imports, json |-> json, argv |-> argv]

NoJson == [f \in {} |-> Undef]

RelToks == {DQ(RelA), DQ(RelB), DQ(RelC)}
EntryToks == {DQ(RelB), DQ(RelC)}

\* Import graphs over three files, cycles and self-imports included.
GraphWorlds ==
  { World({Fa, Fb, Fc}, {},
          [f \in {Fa, Fb, Fc} |-> IF f = Fa THEN ia ELSE IF f = Fb THEN ib ELSE ic],
          NoJson, DefaultArgv) :
      ia \in SeqsUpTo(EntryToks, MaxImports),
      ib \in SeqsUpTo(RelToks, MaxDepImports),
      ic \in SeqsUpTo(RelToks, MaxDepImports) }

\* The layouts of the package k: which node_modules directories exist, in
\* which of them the package lives, and which of its files exist. The entry
\* imports ./b (the directory index), which imports k, and ./c.
ManifestKinds ==
  { [module |-> mo, main |-> ma] : mo \in {Undef, ValM}, ma \in {Undef, ValLib} }

PkgFiles(nm, kjs, man, m, lib, idx) ==
  (IF kjs THEN {Kjs(nm)} ELSE {}) \cup (IF man THEN {Kman(nm)} ELSE {})
  \cup (IF m THEN {Km(nm)} ELSE {}) \cup (IF lib THEN {Klib(nm)} ELSE {})
  \cup (IF idx THEN {Kidx(nm)} ELSE {})

PkgWorld(nms, pf, mk) ==
  LET files == {Fa, Fbi, Fc} \cup pf IN
  World(files, nms,
        [f \in files |-> IF f = Fa THEN <<DQ(RelB), DQ(RelC)>>
                         ELSE IF f = Fbi THEN <<DQ(PkgK)>> ELSE <<>>],
        [f \in {g \in pf : Last(g) = PackageJson} |-> mk],
        DefaultArgv)

PackageWorlds ==
  { PkgWorld({}, {}, [module |-> Undef, main |-> Undef]) }
  \cup
  { PkgWorld(nms, PkgFiles(nm, kjs, man, m, lib, idx), mk) :
      <<nms, nm>> \in {<<{NmP}, NmP>>, <<{NmRoot}, NmRoot>>,
                       <<{NmP, NmRoot}, NmP>>, <<{NmP, NmRoot}, NmRoot>>},
      kjs \in BOOLEAN, man \in BOOLEAN, m \in BOOLEAN, lib \in BOOLEAN,
      idx \in BOOLEAN, mk \in ManifestKinds }

\* The forms of an import specifier, with and without a package directory.
AllToks ==
  {DQ(RelB), SQ(RelB), DQ(RelX), SQ(RelX), DQ(PkgK), IdentTok, NumTok}

TokenWorlds ==
  { World({Fa, Fb, Fc} \cup pf, {},
          [f \in {Fa, Fb, Fc} \cup pf |->
             IF f = Fa THEN ia ELSE IF f = Fb THEN <<DQ(RelC)>>
             ELSE IF f = Fc THEN <<DQ(RelA)>> ELSE <<>>],
          NoJson, DefaultArgv) :
      ia \in SeqsUpTo(AllToks, MaxImports), pf \in {{}, {Kjs(NmP)}} }

\* The layouts of ./b: the file b.ts, the directory b with or without its
\* index file.
LayoutToks == {DQ(RelB), DQ(RelBts), DQ(RelBindex)}

LayoutWorlds ==
  { World({Fa} \cup bf, bd,
          [f \in {Fa} \cup bf |->
             IF f = Fa THEN ia ELSE IF f = Fbi THEN <<DQ(UpA)>> ELSE <<>>],
          NoJson, DefaultArgv) :
      ia \in SeqsUpTo(LayoutToks, MaxImports),
      bf \in SUBSET {Fb, Fbi}, bd \in {{}, {DirB}} }

\* The command lines.
Argvs ==
  { Argv0, Argv0 \o <<ArgA>>, Argv0 \o <<ArgA, DashO>>,
    Argv0 \o <<DashO, ArgOut>>, Argv0 \o <<ArgX, DashO, ArgOut>>,
    Argv0 \o <<ArgA, DashO, ArgOut, DashO>>, DefaultArgv }

ArgvWorlds ==
  { World({Fa, Fb}, {},
          [f \in {Fa, Fb} |-> IF f = Fa THEN <<DQ(RelB)>> ELSE <<>>],
          NoJson, av) : av \in Argvs }

Worlds ==
  GraphWorlds \cup PackageWorlds \cup TokenWorlds \cup LayoutWorlds \cup ArgvWorlds

----------------------------------------------------------------------------
\* The state of the program

VARIABLES
  world,           \* the file system and command line the program runs on
  pc,              \* where the program stands
  err,             \* the message or exception the process ended with
  option,          \* option.input, option.output (lines 15-21)
  entryFile,       \* line 40
  moduleId,        \* line 95
  moduleToId,      \* line 96
  files,           \* line 97, the worklist
  modules,         \* line 142
  cur,             \* the locals of the running compile(file) call
  projRoot,        \* the local of the running npmModulePath call
  written,         \* how many times writeFile has written the output file
  outFile,         \* the module table of the written artifact
  executedModules, \* the loader's cache, identity -> export object
  stack,           \* the loader's call stack of running factories
  nextObj,         \* the next fresh object of the running artifact
  ret,             \* the value the last executeModule call returned
  hist             \* history: the type check's verdict, the paths appended
                   \* to the worklist, the loader's calls, runs and returns

vars ==
  <<world, pc, err, option, entryFile, moduleId, moduleToId, files, modules,
    cur, projRoot, written, outFile, executedModules, stack, nextObj, ret, hist>>

buildVars == <<moduleId, moduleToId, files, modules, cur, projRoot>>
runVars == <<executedModules, stack, nextObj, ret>>

\* The value of a JavaScript variable holding undefined where a path is
\* expected.
NoPath == <<<<"undefined">>>>

----------------------------------------------------------------------------
\* The file system (fs.existsSync, fs.statSync)

Prefixes(p) == {SubSeq(p, 1, k) : k \in 0..Len(p)}

Directories ==
  UNION {Prefixes(dirname(f)) : f \in world.files}
  \cup UNION {Prefixes(d) : d \in world.dirs}

isFile(path) == path \in world.files
isDir(path) == path \in Directories

----------------------------------------------------------------------------
\* error (lines 5-8) and the results of the resolver

CannotFind == "Cannot find module"
NoInput == "No input is provided."
TypeCheckErr == "Type check Error."

\* Mutant of error: the message is printed and the call returns.
errorReturns(msg) == [exit |-> FALSE, msg |-> msg]

\* console.error(msg); process.exit(1): the process ends, nothing returns.
error(msg) == [exit |-> TRUE, msg |-> msg]

Found(path) == [exit |-> FALSE, msg |-> "", path |-> path]
Errored(e) == [exit |-> e.exit, msg |-> e.msg, path |-> NoPath]

\* Mutant of localModulePath: the directory index is tried before the file.
localModulePathIndexFirst(path, from) ==
  LET absPath == IF from # Undef THEN resolve(dirname(from), path)
                 ELSE resolve(Cwd, path)
      tsPath == IF endsWith(absPath, ".ts") THEN absPath ELSE PlusExt(absPath, ".ts")
      indexPath == resolve(absPath, <<TsName("index")>>)
  IN IF isDir(absPath) /\ isFile(indexPath) THEN Found(indexPath)
     ELSE IF isFile(tsPath) THEN Found(tsPath)
     ELSE Errored(error(CannotFind))

\* localModulePath (lines 33-38); from is Undef for the entry file.
localModulePath(path, from) ==
  LET absPath == IF from # Undef THEN resolve(dirname(from), path)
                 ELSE resolve(Cwd, path)
      tsPath == IF endsWith(absPath, ".ts") THEN absPath ELSE PlusExt(absPath, ".ts")
      indexPath == resolve(absPath, <<TsName("index")>>)
  IN IF isFile(tsPath) THEN Found(tsPath)
     ELSE IF isDir(absPath) /\ isFile(indexPath) THEN Found(indexPath)
     ELSE Errored(error(CannotFind))

\* The condition of the while loop of npmModulePath (line 44).
NoPackageDir(root) == ~isDir(resolve(root, <<NodeModules>>))

\* Mutant of ManifestMain: the main field is preferred to the module field.
ManifestMainFirst(json) == IF json.main # Undef THEN json.main ELSE json.module

\* require(packageJSONPath).module || require(packageJSONPath).main (line 57)
ManifestMain(json) == IF json.module # Undef THEN json.module ELSE json.main

\* npmModulePath after its loop (lines 48-68).
npmModulePath(pkg, root) ==
  LET pkgRoot == resolve(resolve(root, <<NodeModules>>), pkg)
      jsPath == PlusExt(pkgRoot, ".js")
      packageJSONPath == resolve(pkgRoot, <<PackageJson>>)
      main == IF isFile(packageJSONPath)
              THEN ManifestMain(world.json[packageJSONPath]) ELSE Undef
      indexPath == resolve(pkgRoot, <<JsName("index")>>)
  IN IF isFile(jsPath) THEN Found(jsPath)
     ELSE IF isFile(packageJSONPath) /\ main # Undef THEN Found(resolve(pkgRoot, main))
     ELSE IF isFile(indexPath) THEN Found(indexPath)
     ELSE Errored(error(CannotFind))

----------------------------------------------------------------------------
\* The command line (lines 15-23)

\* The for loop over process.argv: the third word is the input, and the
\* word after the last -o is the output (undefined when -o is the last word).
ParseArgs(argv) ==
  LET os == {i \in 1..Len(argv) : argv[i] = DashO}
      last == CHOOSE i \in os : \A j \in os : j <= i
  IN [input |-> IF Len(argv) >= 3 THEN argv[3] ELSE Undef,
      output |-> IF os = {} \/ last = Len(argv) THEN Undef ELSE argv[last + 1]]

----------------------------------------------------------------------------
\* Map<string, number> (deps, line 101): a list of entries in insertion order

MapHas(m, k) == \E i \in 1..Len(m) : m[i].key = k
MapGet(m, k) == m[CHOOSE i \in 1..Len(m) : m[i].key = k].val
\* Mutant of MapSet: an entry is added also when the key is present.
MapSetAppend(m, k, v) == Append(m, [key |-> k, val |-> v])

MapSet(m, k, v) ==
  IF MapHas(m, k)
  THEN [i \in 1..Len(m) |-> IF m[i].key = k THEN [key |-> k, val |-> v] ELSE m[i]]
  ELSE Append(m, [key |-> k, val |-> v])

\* ts.transpileModule (lines 130-137): the CommonJS body has one require
\* call per import declaration, in the order of the declarations, with the
\* specifier's value.
Transpile(content) == [i \in 1..Len(content) |-> content[i].v]

----------------------------------------------------------------------------
\* The build (lines 15-193)

NoCur == [file |-> NoPath, id |-> 0, deps |-> <<>>, idx |-> 0, dep |-> Undef]
NoHist == [checked |-> "no", pushed |-> <<>>, calls |-> <<>>, ran |-> <<>>,
           returned |-> {}]

Init ==
  /\ world \in Worlds
  /\ pc = "start"
  /\ err = ""
  /\ option = [input |-> Undef, output |-> Undef]
  /\ entryFile = NoPath
  /\ moduleId = 0
  /\ moduleToId = [f \in {} |-> 0]
  /\ files = <<>>
  /\ modules = <<>>
  /\ cur = NoCur
  /\ projRoot = <<>>
  /\ written = 0
  /\ outFile = <<>>
  /\ executedModules = [i \in {} |-> 0]
  /\ stack = <<>>
  /\ nextObj = 0
  /\ ret = 0
  /\ hist = NoHist

\* The process ends: process.exit(1) in error, or an uncaught exception.
Exit(msg) ==
  /\ pc' = "failed"
  /\ err' = msg
  /\ UNCHANGED <<world, written, outFile, runVars, hist>>

\* Lines 15-40: the command line is read and the entry file resolved.
Start ==
  /\ pc = "start"
  /\ option' = ParseArgs(world.argv)
  /\ UNCHANGED buildVars
  /\ LET input == option'.input
         noInput == input = Undef /\ error(NoInput).exit
         r == localModulePath(input, Undef)
     IN IF noInput THEN Exit(NoInput) /\ UNCHANGED entryFile
        ELSE IF input = Undef THEN Exit("TypeError") /\ UNCHANGED entryFile
        ELSE IF r.exit THEN Exit(r.msg) /\ UNCHANGED entryFile
        ELSE /\ entryFile' = r.path
             /\ pc' = "typecheck"
             /\ UNCHANGED <<world, err, written, outFile, runVars, hist>>

\* Lines 71-97: the type check of the entry file, whose diagnostics are the
\* collaborator's to decide, and the initial registry and worklist.
TypeCheck ==
  /\ pc = "typecheck"
  /\ \E diagnostics \in BOOLEAN :
       IF diagnostics /\ error(TypeCheckErr).exit
       THEN Exit(TypeCheckErr) /\ UNCHANGED <<option, entryFile, buildVars>>
       ELSE /\ pc' = "loop"
            /\ moduleId' = 0
            /\ moduleToId' = [f \in {entryFile} |-> 0]
            /\ files' = <<entryFile>>
            /\ modules' = <<>>
            /\ hist' = [hist EXCEPT !.pushed = <<entryFile>>,
                                    !.checked = IF diagnostics THEN "failed" ELSE "passed"]
            /\ UNCHANGED <<world, err, option, entryFile, cur, projRoot, written,
                           outFile, runVars>>

\* while ((file = files.shift())): the loop ends on an empty worklist and on
\* a falsy element.
WorklistDone == IF files = <<>> THEN TRUE ELSE Head(files) = NoPath

\* Lines 145-146 and 99-104: the next file leaves the worklist and compile
\* reads it.
CompileBegin ==
  /\ pc = "loop"
  /\ ~WorklistDone
  /\ LET file == Head(files) IN
       /\ files' = Tail(files)
       /\ IF ~isFile(file)
          THEN Exit("ENOENT")
               /\ UNCHANGED <<option, entryFile, moduleId, moduleToId, modules,
                              cur, projRoot>>
          ELSE /\ cur' = [file |-> file, id |-> moduleToId[file], deps |-> <<>>,
                          idx |-> 1, dep |-> Undef]
               /\ pc' = "scan"
               /\ UNCHANGED <<world, err, option, entryFile, moduleId, moduleToId,
                              modules, projRoot, written, outFile, runVars, hist>>

\* Mutant of NewId: moduleId++ in place of ++moduleId, the identity handed
\* out is the one before the increment.
NewIdStale(id) == id

\* Line 122: the identity of a newly discovered module.
NewId(id) == id + 1

\* Mutant of Unregistered: every resolved path is taken for a new one.
UnregisteredAlways(map, depPath) == TRUE

\* Line 121: whether the resolved path needs an identity.
Unregistered(map, depPath) == depPath \notin DOMAIN map

\* Mutant of push: the new path goes to the front of the worklist.
pushFront(q, x) == <<x>> \o q

\* files.push(depPath) (line 124): the new path goes to the end of the
\* worklist, from whose front files.shift() takes (line 145).
push(q, x) == Append(q, x)

\* Lines 120-126: the resolved path gets its identity, joins the worklist
\* when it is new, and the specifier is recorded.
Register(dep, depPath) ==
  LET new == Unregistered(moduleToId, depPath)
      depID == IF new THEN NewId(moduleId) ELSE moduleToId[depPath]
  IN /\ moduleId' = IF new THEN depID ELSE moduleId
     /\ moduleToId' = IF new
                      THEN [f \in DOMAIN moduleToId \cup {depPath} |->
                              IF f = depPath THEN depID ELSE moduleToId[f]]
                      ELSE moduleToId
     /\ files' = IF new THEN push(files, depPath) ELSE files
     /\ hist' = IF new THEN [hist EXCEPT !.pushed = Append(@, depPath)] ELSE hist
     /\ cur' = [cur EXCEPT !.deps = MapSet(@, dep, depID), !.idx = @ + 1,
                           !.dep = Undef]
     /\ pc' = "scan"
     /\ UNCHANGED <<world, err, option, entryFile, modules, written, outFile,
                    runVars>>

\* Mutant of Imports: the scan stops after the first import declaration.
ImportsFirstOnly(file) ==
  IF world.src[file] = <<>> THEN <<>> ELSE <<Head(world.src[file])>>

\* Lines 103-108: the top-level import declarations of the file's source.
Imports(file) == world.src[file]

\* Lines 106-119: one top-level import declaration of the file is decoded;
\* a relative specifier is resolved and registered, a bare one starts the
\* walk of npmModulePath.
ScanImport ==
  /\ pc = "scan"
  /\ cur.idx <= Len(Imports(cur.file))
  /\ LET parsed == JSONParse(Imports(cur.file)[cur.idx])
         dep == parsed.v
         r == localModulePath(dep, cur.file)
     IN IF parsed.r = "throw" THEN Exit("SyntaxError") /\ UNCHANGED <<option, entryFile, buildVars>>
        ELSE IF parsed.r = "nonstring" THEN Exit("TypeError") /\ UNCHANGED <<option, entryFile, buildVars>>
        ELSE IF startsWithDot(dep)
        THEN IF r.exit THEN Exit(r.msg) /\ UNCHANGED <<option, entryFile, buildVars>>
             ELSE Register(dep, r.path) /\ UNCHANGED projRoot
        ELSE /\ projRoot' = dirname(cur.file)
             /\ cur' = [cur EXCEPT !.dep = dep]
             /\ pc' = "walk"
             /\ UNCHANGED <<world, err, option, entryFile, moduleId, moduleToId,
                            files, modules, written, outFile, runVars, hist>>

\* Lines 44-46: one turn of the loop that looks for a package directory.
WalkUp ==
  /\ pc = "walk"
  /\ NoPackageDir(projRoot)
  /\ projRoot' = dirname(projRoot)
  /\ UNCHANGED <<world, pc, err, option, entryFile, moduleId, moduleToId, files,
                 modules, cur, written, outFile, runVars, hist>>

\* Lines 48-68 and 120-126: the package is looked up in the directory the
\* walk stopped at.
NpmResolve ==
  /\ pc = "walk"
  /\ ~NoPackageDir(projRoot)
  /\ LET r == npmModulePath(cur.dep, projRoot) IN
       IF r.exit THEN Exit(r.msg) /\ UNCHANGED <<option, entryFile, buildVars>>
       ELSE Register(cur.dep, r.path) /\ UNCHANGED projRoot

\* Lines 130-139 and 146: the file is transpiled and the module joins the
\* list.
CompileEnd ==
  /\ pc = "scan"
  /\ cur.idx > Len(Imports(cur.file))
  /\ modules' = Append(modules, [id |-> cur.id, file |-> cur.file, deps |-> cur.deps,
                                 transpiled |-> Transpile(Imports(cur.file))])
  /\ cur' = NoCur
  /\ pc' = "loop"
  /\ UNCHANGED <<world, err, option, entryFile, moduleId, moduleToId, files,
                 projRoot, written, outFile, runVars, hist>>

\* Mutant of generate: the last module of the list is left out of the table.
generateDropsLast(mods) ==
  [i \in 1..Len(mods) - 1 |->
     [id |-> mods[i].id, body |-> mods[i].transpiled, deps |-> mods[i].deps]]

\* Mutant of generate: the table is emitted from the last module to the
\* first.
generateReversed(mods) ==
  [i \in 1..Len(mods) |->
     [id |-> mods[Len(mods) + 1 - i].id, body |-> mods[Len(mods) + 1 - i].transpiled,
      deps |-> mods[Len(mods) + 1 - i].deps]]

\* generate (lines 152-186): the module table, one entry per module in the
\* order of the list.
generate(mods) ==
  [i \in 1..Len(mods) |->
     [id |-> mods[i].id, body |-> mods[i].transpiled, deps |-> mods[i].deps]]

\* Lines 188-193: the artifact is generated and written; writeFile throws
\* on an undefined file name.
Write ==
  /\ pc = "loop"
  /\ WorklistDone
  /\ UNCHANGED <<option, entryFile, buildVars>>
  /\ IF option.output = Undef THEN Exit("TypeError")
     ELSE /\ written' = written + 1
          /\ outFile' = generate(modules)
          /\ pc' = "done"
          /\ UNCHANGED <<world, err, runVars, hist>>

BuildNext ==
  \/ Start
  \/ TypeCheck
  \/ CompileBegin
  \/ ScanImport
  \/ WalkUp
  \/ NpmResolve
  \/ CompileEnd
  \/ Write

----------------------------------------------------------------------------
\* The run of the written artifact (the loader, lines 155-169)

\* modules[id]: the entry of the module table keyed by the identity.
TableHas(id) == \E i \in 1..Len(outFile) : outFile[i].id = id
TableGet(id) == outFile[CHOOSE i \in 1..Len(outFile) : outFile[i].id = id]

\* Mutant of CacheHit: the export object enters the cache only when the
\* factory has returned, so a module whose factory is running is no hit.
CacheHitWhenDone(cache, id) ==
  id \in DOMAIN cache /\ \A k \in 1..Len(stack) : stack[k].id # id

\* if (executedModules[id]) (line 158): an export object is truthy.
CacheHit(cache, id) == id \in DOMAIN cache

\* What the run records: the identities requested, the factory runs and the
\* values returned.
RecordRun(h, id) == [h EXCEPT !.calls = Append(@, id), !.ran = Append(@, id)]
RecordReturn(h, id, val) == [h EXCEPT !.returned = @ \cup {[id |-> id, val |-> val]}]
RecordHit(h, id, val) == RecordReturn([h EXCEPT !.calls = Append(@, id)], id, val)

Crash(msg) ==
  /\ pc' = "crashed"
  /\ err' = msg
  /\ UNCHANGED <<executedModules, nextObj, ret, hist>>

\* executeModule(id) up to its return from the cache or to the call of the
\* factory (lines 158-166); rest is the caller's stack.
executeModule(id, rest) ==
  IF CacheHit(executedModules, id)
  THEN /\ ret' = executedModules[id]
       /\ stack' = rest
       /\ hist' = RecordHit(hist, id, executedModules[id])
       /\ pc' = IF rest = <<>> THEN "ran" ELSE "run"
       /\ UNCHANGED <<executedModules, nextObj, err>>
  ELSE IF ~TableHas(id) THEN Crash("TypeError") /\ stack' = rest
  ELSE IF Len(rest) >= MaxStack THEN Crash("RangeError") /\ stack' = rest
  ELSE /\ executedModules' =
            [i \in DOMAIN executedModules \cup {id} |->
               IF i = id THEN nextObj ELSE executedModules[i]]
       /\ nextObj' = nextObj + 1
       /\ stack' = Append(rest, [id |-> id, i |-> 1, exports |-> nextObj,
                                 replaced |-> FALSE])
       /\ hist' = RecordRun(hist, id)
       /\ pc' = "run"
       /\ UNCHANGED <<ret, err>>

Top == stack[Len(stack)]
Body(frame) == TableGet(frame.id).body
WithTop(frame) == [stack EXCEPT ![Len(stack)] = frame]

\* Line 168: the artifact is loaded and executeModule(0) is called.
Load ==
  /\ pc = "done"
  /\ executeModule(0, <<>>)
  /\ UNCHANGED <<world, option, entryFile, buildVars, written, outFile>>

\* Lines 161-163: the running factory reaches its next require call;
\* localRequire looks the specifier up in the module's dependency table
\* (undefined when it has no entry, and no module has that identity).
Require ==
  /\ pc = "run" /\ stack # <<>>
  /\ Top.i <= Len(Body(Top))
  /\ LET path == Body(Top)[Top.i]
         deps == TableGet(Top.id).deps
         rest == WithTop([Top EXCEPT !.i = @ + 1])
     IN IF MapHas(deps, path) THEN executeModule(MapGet(deps, path), rest)
        ELSE Crash("TypeError") /\ stack' = rest
  /\ UNCHANGED <<world, option, entryFile, buildVars, written, outFile>>

\* The factory assigns module.exports (an export = statement, which follows
\* the module's imports).
ReplaceExports ==
  /\ pc = "run" /\ stack # <<>>
  /\ Top.i > Len(Body(Top))
  /\ ~Top.replaced
  /\ stack' = WithTop([Top EXCEPT !.exports = nextObj, !.replaced = TRUE])
  /\ nextObj' = nextObj + 1
  /\ UNCHANGED <<world, pc, err, option, entryFile, buildVars, written, outFile,
                 executedModules, ret, hist>>

\* Line 167: the factory has returned and executeModule returns
\* module.exports.
Return ==
  /\ pc = "run" /\ stack # <<>>
  /\ Top.i > Len(Body(Top))
  /\ ret' = Top.exports
  /\ hist' = RecordReturn(hist, Top.id, Top.exports)
  /\ stack' = Front(stack)
  /\ pc' = IF Len(stack) = 1 THEN "ran" ELSE "run"
  /\ UNCHANGED <<world, err, option, entryFile, buildVars, written, outFile,
                 executedModules, nextObj>>

RunNext ==
  \/ Load
  \/ Require
  \/ ReplaceExports
  \/ Return

Next == BuildNext \/ RunNext

Spec == Init /\ [][Next]_vars

\* The program is one sequential process: whenever it can take a step, it
\* takes one.
FairSpec == Spec /\ WF_vars(Next)

----------------------------------------------------------------------------
\* The import graph of a world, for the claims

\* The directory the walk of npmModulePath stops at, if it stops.
RECURSIVE PackageRootFrom(_)
PackageRootFrom(dir) ==
  IF ~NoPackageDir(dir) THEN {dir}
  ELSE IF dir = <<>> THEN {}
  ELSE PackageRootFrom(dirname(dir))

\* The paths a specifier value resolves to from a file (none or one).
ResolveValue(v, file) ==
  LET rs == IF startsWithDot(v) THEN {localModulePath(v, file)}
            ELSE {npmModulePath(v, root) : root \in PackageRootFrom(dirname(file))}
  IN {r.path : r \in {x \in rs : ~x.exit}}

\* The import edges of a file: the targets of its decodable specifiers.
Edges(file) ==
  IF file \notin DOMAIN world.src THEN {}
  ELSE UNION { IF JSONParse(world.src[file][i]).r = "ok"
               THEN ResolveValue(world.src[file][i].v, file) ELSE {} :
               i \in 1..Len(world.src[file]) }

RECURSIVE Closure(_)
Closure(S) ==
  LET T == S \cup UNION {Edges(f) : f \in S}
  IN IF T = S THEN S ELSE Closure(T)

CompiledFiles == {modules[i].file : i \in 1..Len(modules)}
Registered == DOMAIN moduleToId
Count(seq, x) == Cardinality({i \in 1..Len(seq) : seq[i] = x})

\* Every dependency entry recorded so far, with the file it was recorded for.
EntriesOf(file, deps) ==
  {[file |-> file, key |-> deps[j].key, val |-> deps[j].val] : j \in 1..Len(deps)}

DepEntries ==
  UNION {EntriesOf(modules[i].file, modules[i].deps) : i \in 1..Len(modules)}
  \cup EntriesOf(cur.file, cur.deps)

----------------------------------------------------------------------------
\* The claims

\* C1: once the build has succeeded (the artifact is written), the files
\* compiled into the module table are exactly the files reachable from the
\* entry file through resolved top-level import edges.
C1_ClosureComplete ==
  written > 0 => CompiledFiles = Closure({entryFile})

\* A successful build of at least two modules that leaves a source file of
\* the world out, because nothing reachable imports it.
C1_Witness ==
  /\ written > 0
  /\ Len(modules) >= 2
  /\ \E f \in world.files : f \notin CompiledFiles /\ endsWith(f, ".ts")

\* C2: in every state of the build the registry is injective, its
\* identities are exactly 0..n-1 for n registered paths, the entry file has
\* identity 0, every recorded dependency entry carries the identity of the
\* path its specifier resolves to, and no step changes the identity of a
\* registered path.
RegistryBijective ==
  /\ \A f, g \in Registered : moduleToId[f] = moduleToId[g] => f = g
  /\ {moduleToId[f] : f \in Registered} =
       {n \in 0..Cardinality(Registered) : n < Cardinality(Registered)}
  /\ Registered # {} => entryFile \in Registered /\ moduleToId[entryFile] = 0
  /\ \A e \in DepEntries :
       \E f \in ResolveValue(e.key, e.file) :
         f \in Registered /\ moduleToId[f] = e.val

RegistryStable ==
  \A f \in Registered : f \in DOMAIN moduleToId' /\ moduleToId'[f] = moduleToId[f]

C2_RegistryBijection == []RegistryBijective /\ [][RegistryStable]_vars

\* Three registered paths, one of them the target of import edges from two
\* different files.
C2_Witness ==
  /\ Cardinality(Registered) >= 3
  /\ \E d, e \in DepEntries : d.file # e.file /\ d.val = e.val /\ d.val # 0

\* C3: the module table holds one entry per module, and in one run of the
\* artifact no factory is invoked twice and the entry module's factory is
\* invoked exactly once, however often the identities are required.
C3_ExecuteOnce ==
  /\ \A i, j \in 1..Len(modules) : modules[i].file = modules[j].file => i = j
  /\ \A i, j \in 1..Len(outFile) : outFile[i].id = outFile[j].id => i = j
  /\ \A k \in 1..Len(hist.ran) : Count(hist.ran, hist.ran[k]) = 1
  /\ pc \in {"run", "ran"} => Count(hist.ran, 0) = 1

\* A finished run in which one module, imported by three modules, was
\* requested three times.
C3_Witness ==
  /\ pc = "ran"
  /\ \E id \in 1..moduleId :
       /\ Count(hist.calls, id) >= 3
       /\ Cardinality({i \in 1..Len(outFile) :
                         \E j \in 1..Len(outFile[i].deps) :
                           outFile[i].deps[j].val = id}) >= 3

\* C4: every run ends, cycles in the import graph or not: a fatal error
\* stops the build, or the worklist empties, the artifact is written and
\* its executeModule(0) returns. The one run that does not end is the
\* walk of npmModulePath that finds no package directory (C5).
WalkDiverges ==
  pc = "walk" /\ NoPackageDir(projRoot) /\ dirname(projRoot) = projRoot

C4_CycleTolerance == <>(pc = "ran" \/ pc = "failed" \/ WalkDiverges)

\* A finished run over the cycle entry -> 1 -> 2 -> entry, every import of
\* which was required.
C4_Witness ==
  /\ pc = "ran"
  /\ Len(outFile) = 3
  /\ hist.calls = <<0, 1, 2, 0>>
  /\ \A i \in 1..3 : Len(outFile[i].deps) = 1

\* C5: the walk of npmModulePath ends: a turn of its loop that finds no
\* package directory moves to a proper ancestor, so the walk cannot repeat
\* a directory for ever.
C5_WalkEnds ==
  (pc = "walk" /\ NoPackageDir(projRoot)) => dirname(projRoot) # projRoot

\* The candidates of relative resolution, as the specification lists them.
AbsOf(v, from) == IF from # Undef THEN resolve(dirname(from), v) ELSE resolve(Cwd, v)
TsCandidate(v, from) ==
  IF endsWith(AbsOf(v, from), ".ts") THEN AbsOf(v, from) ELSE PlusExt(AbsOf(v, from), ".ts")
IndexCandidate(v, from) == Append(AbsOf(v, from), TsName("index"))
Unresolvable(v, from) == ~isFile(TsCandidate(v, from)) /\ ~isFile(IndexCandidate(v, from))

AtImport == pc = "scan" /\ cur.idx <= Len(world.src[cur.file])
CurToken == world.src[cur.file][cur.idx]

\* C6: when the scan stands at an import whose specifier is a string
\* literal with a relative value for which neither the file with the
\* implied extension nor the directory index exists, the build aborts with
\* the module-not-found error and nothing has been written.
C6_FatalOnUnresolved ==
  [][ (AtImport /\ IsStringLiteral(CurToken) /\ startsWithDot(CurToken.v)
         /\ Unresolvable(CurToken.v, cur.file))
      => (pc' = "failed" /\ err' = CannotFind /\ written' = 0) ]_vars

\* C7: the output file is written at most once, by the last step of a build
\* whose type check passed and whose every registered path was read and
\* compiled; a failed build has written nothing and takes no further step.
WrittenOnlyOnSuccess ==
  /\ written <= 1
  /\ pc = "failed" => written = 0
  /\ written = 1 =>
       /\ pc \in {"done", "run", "ran", "crashed"}
       /\ hist.checked = "passed"
       /\ files = <<>> /\ cur = NoCur
       /\ Registered = CompiledFiles
       /\ \A f \in CompiledFiles : isFile(f)
       /\ outFile = generate(modules)

StopsAtError ==
  /\ pc = "failed" => UNCHANGED vars
  /\ written' # written => pc = "loop" /\ pc' = "done"

C7_NoPartialOutput == []WrittenOnlyOnSuccess /\ [][StopsAtError]_vars

\* A build that failed after compiling a module, with paths still waiting
\* in the worklist.
C7_Witness ==
  /\ pc = "failed"
  /\ Len(modules) >= 1
  /\ files # <<>>
  /\ written = 0

\* C8: every path the resolver has returned, the entry file and every
\* registered path, is an existing regular file.
C8_ResolvedExists ==
  /\ entryFile # NoPath => isFile(entryFile)
  /\ \A f \in Registered : isFile(f)

\* C9: an import fails the build for the form of its specifier exactly when
\* the specifier is not a string literal.
FormErrors == {"SyntaxError", "TypeError"}

C9_UnsupportedIffNotLiteral ==
  (pc = "failed" /\ cur.idx >= 1) =>
    (err \in FormErrors <=> ~IsStringLiteral(CurToken))

\* C10: every relative specifier recorded, and the entry file, resolved to
\* the file with the implied extension when that file exists, and to the
\* directory index only when it does not.
PathOfId(id) == CHOOSE f \in Registered : moduleToId[f] = id

Preferred(got, v, from) ==
  /\ got \in {TsCandidate(v, from), IndexCandidate(v, from)}
  /\ isFile(TsCandidate(v, from)) => got = TsCandidate(v, from)
  /\ got = IndexCandidate(v, from) =>
       ~isFile(TsCandidate(v, from)) /\ isFile(IndexCandidate(v, from))

C10_RelativePrecedence ==
  /\ entryFile # NoPath => Preferred(entryFile, option.input, Undef)
  /\ \A e \in DepEntries :
       startsWithDot(e.key) => Preferred(PathOfId(e.val), e.key, e.file)

\* A recorded import of a specifier for which both the file and the
\* directory index exist.
C10_Witness ==
  \E e \in DepEntries :
    /\ startsWithDot(e.key)
    /\ isFile(TsCandidate(e.key, e.file)) /\ isFile(IndexCandidate(e.key, e.file))
    /\ PathOfId(e.val) = TsCandidate(e.key, e.file)

\* The candidates of package resolution in the package directory root, as
\* the specification lists them: <package>.js, the manifest's module field,
\* the manifest's main field, the package's index file.
PkgDir(v, root) == Append(root, NodeModules) \o v
PkgJs(v, root) == PlusExt(PkgDir(v, root), ".js")
PkgIndex(v, root) == Append(PkgDir(v, root), JsName("index"))
PkgFields(v, root) ==
  IF isFile(Append(PkgDir(v, root), PackageJson))
  THEN world.json[Append(PkgDir(v, root), PackageJson)]
  ELSE [module |-> Undef, main |-> Undef]

PkgPreferred(got, v, root) ==
  IF isFile(PkgJs(v, root)) THEN got = PkgJs(v, root)
  ELSE IF PkgFields(v, root).module # Undef
  THEN got = PkgDir(v, root) \o PkgFields(v, root).module
  ELSE IF PkgFields(v, root).main # Undef
  THEN got = PkgDir(v, root) \o PkgFields(v, root).main
  ELSE isFile(PkgIndex(v, root)) /\ got = PkgIndex(v, root)

NoPkgCandidate(v, root) ==
  /\ ~isFile(PkgJs(v, root))
  /\ PkgFields(v, root).module = Undef /\ PkgFields(v, root).main = Undef
  /\ ~isFile(PkgIndex(v, root))

\* C11: every package specifier recorded resolved, inside the nearest
\* ancestor directory that has a node_modules directory, to the first
\* candidate present in the order <package>.js, manifest module field,
\* manifest main field, index file; and the package lookup fails only when
\* no candidate is present.
C11_PackagePrecedence ==
  /\ \A e \in DepEntries :
       ~startsWithDot(e.key) =>
         \E root \in PackageRootFrom(dirname(e.file)) :
           PkgPreferred(PathOfId(e.val), e.key, root)
  /\ (pc = "failed" /\ err = CannotFind /\ cur.dep # Undef) =>
       \A root \in PackageRootFrom(dirname(cur.file)) : NoPkgCandidate(cur.dep, root)

\* A recorded package import for which the manifest names both fields and
\* the index file exists, while <package>.js does not.
C11_Witness ==
  \E e \in DepEntries :
    /\ ~startsWithDot(e.key)
    /\ \E root \in PackageRootFrom(dirname(e.file)) :
         /\ ~isFile(PkgJs(e.key, root))
         /\ PkgFields(e.key, root).module # Undef
         /\ PkgFields(e.key, root).main # Undef
         /\ isFile(PkgIndex(e.key, root))
         /\ PathOfId(e.val) = PkgDir(e.key, root) \o PkgFields(e.key, root).module

\* C12: a build whose type check reported diagnostics has ended with the
\* type-check error before any path was registered, queued, scanned or
\* transpiled and without writing the output; the registry, the worklist,
\* the module list and the output exist only after a type check that
\* reported no diagnostics.
C12_TypeCheckGate ==
  /\ (pc = "failed" /\ err = TypeCheckErr) =>
       /\ hist.checked = "no"
       /\ Registered = {} /\ files = <<>> /\ hist.pushed = <<>>
       /\ cur = NoCur /\ modules = <<>>
       /\ written = 0 /\ outFile = <<>>
  /\ (Registered # {} \/ files # <<>> \/ cur # NoCur \/ modules # <<>> \/ written > 0) =>
       hist.checked = "passed"
  /\ pc \in {"loop", "scan", "walk", "done", "run", "ran", "crashed"} =>
       hist.checked = "passed"

\* A build stopped by the type check of an entry file that has imports to
\* scan.
C12_Witness ==
  /\ pc = "failed" /\ err = TypeCheckErr
  /\ entryFile # NoPath
  /\ Len(world.src[entryFile]) >= 1

\* The build as a function of the world alone: the registry, the module
\* list and the module table that the entry file and the file system
\* determine, or no build (ok = FALSE) when an import cannot be decoded or
\* resolved or a registered path cannot be read.
RefEntry == localModulePath(ParseArgs(world.argv).input, Undef).path

RECURSIVE RefScan(_, _, _)
RefScan(file, i, st) ==
  IF i > Len(world.src[file]) THEN st
  ELSE LET tok == world.src[file][i]
           targets == IF JSONParse(tok).r = "ok" THEN ResolveValue(tok.v, file) ELSE {}
       IN IF targets = {} THEN [st EXCEPT !.ok = FALSE]
          ELSE LET t == CHOOSE x \in targets : TRUE
                   new == t \notin DOMAIN st.ids
                   id == IF new THEN st.next ELSE st.ids[t]
                   keys == {st.deps[j].key : j \in 1..Len(st.deps)}
               IN RefScan(file, i + 1,
                    [ids |-> [f \in DOMAIN st.ids \cup {t} |-> IF f = t THEN id ELSE st.ids[f]],
                     queue |-> IF new THEN st.queue \o <<t>> ELSE st.queue,
                     next |-> IF new THEN st.next + 1 ELSE st.next,
                     deps |-> IF tok.v \in keys THEN st.deps
                              ELSE st.deps \o <<[key |-> tok.v, val |-> id]>>,
                     ok |-> TRUE])

RECURSIVE RefBuild(_)
RefBuild(st) ==
  IF ~st.ok \/ st.queue = <<>> THEN st
  ELSE LET file == Head(st.queue) IN
       IF ~isFile(file) THEN [st EXCEPT !.ok = FALSE]
       ELSE LET sc == RefScan(file, 1, [ids |-> st.ids, queue |-> Tail(st.queue),
                                        next |-> st.next, deps |-> <<>>, ok |-> TRUE])
            IN RefBuild([ids |-> sc.ids, queue |-> sc.queue, next |-> sc.next,
                         mods |-> st.mods \o <<[id |-> st.ids[file], file |-> file,
                                                deps |-> sc.deps]>>,
                         ok |-> sc.ok])

Ref ==
  RefBuild([ids |-> [f \in {RefEntry} |-> 0], queue |-> <<RefEntry>>, next |-> 1,
            mods |-> <<>>, ok |-> TRUE])

RefTable(mods) ==
  [i \in 1..Len(mods) |->
     [id |-> mods[i].id,
      body |-> [j \in 1..Len(world.src[mods[i].file]) |-> world.src[mods[i].file][j].v],
      deps |-> mods[i].deps]]

\* C13: the outcome of a build is a function of the entry file and the
\* file system: every build that writes its output has assigned each path
\* the identity, recorded the dependency tables in the order, and written
\* the module table that the world determines, and no build fails after
\* its type check on a world that determines an output.
C13_Determinism ==
  LET ref == Ref IN
  /\ written > 0 =>
       /\ ref.ok
       /\ moduleToId = ref.ids
       /\ [i \in 1..Len(modules) |->
             [id |-> modules[i].id, file |-> modules[i].file, deps |-> modules[i].deps]]
            = ref.mods
       /\ outFile = RefTable(ref.mods)
  /\ (pc = "failed" /\ hist.checked = "passed" /\ option.output # Undef) => ~ref.ok

\* A written build of three modules, one of them with two dependency
\* entries and one of them imported twice.
C13_Witness ==
  /\ written > 0
  /\ Len(outFile) = 3
  /\ \E i \in 1..3 : Len(outFile[i].deps) = 2
  /\ \E d, e \in DepEntries : d.file # e.file /\ d.val = e.val

\* The identities whose factory is running: the frames of the loader's
\* stack.
Running == {stack[k].id : k \in 1..Len(stack)}

\* The identity the running factory requests next, if its specifier has an
\* entry in the dependency table.
AtRequire == pc = "run" /\ stack # <<>> /\ Top.i <= Len(Body(Top))
Requested == MapGet(TableGet(Top.id).deps, Body(Top)[Top.i])

\* C14: the export object of every module whose factory is running is in
\* the cache, and is the object the factory was handed as long as the
\* factory has not replaced it; a request for an identity whose factory is
\* running returns the cached object and runs no factory.
InProgressCached ==
  \A k \in 1..Len(stack) :
    /\ stack[k].id \in DOMAIN executedModules
    /\ ~stack[k].replaced => executedModules[stack[k].id] = stack[k].exports

ReentryServedFromCache ==
  (AtRequire /\ MapHas(TableGet(Top.id).deps, Body(Top)[Top.i]) /\ Requested \in Running) =>
    /\ ret' = executedModules[Requested]
    /\ hist'.ran = hist.ran
    /\ executedModules' = executedModules
    /\ Len(stack') = Len(stack)
    /\ pc' = "run"

C14_CachePreInsertion == []InProgressCached /\ [][ReentryServedFromCache]_vars

\* A request, made while the entry module's factory is running, that
\* returned the entry module's in-progress export object.
C14_Witness ==
  /\ pc = "run"
  /\ Count(hist.calls, 0) = 2 /\ Count(hist.ran, 0) = 1
  /\ 0 \in Running
  /\ ret = executedModules[0]
  /\ Len(stack) >= 2

\* C15: all requests for one identity in one run return the same export
\* value, the request that ran the factory and the requests served from
\* the cache alike, also when the factory replaces module.exports.
C15_SingleExportValue ==
  \A r1, r2 \in hist.returned : r1.id = r2.id => r1.val = r2.val

\* The paths that have left the worklist: the compiled files in order, then
\* the file being compiled.
Begun ==
  [i \in 1..Len(modules) |-> modules[i].file]
  \o (IF cur.file # NoPath THEN <<cur.file>> ELSE <<>>)

NoDuplicates(seq) == \A i, j \in 1..Len(seq) : seq[i] = seq[j] => i = j

\* C16: no path is appended to the worklist twice; the paths appended are
\* exactly the registered paths; they leave the worklist in the order they
\* entered it, each once, so every path is read, scanned and transpiled at
\* most once, and exactly once in a build that writes its output; a step
\* that resolves an import to a registered path leaves the worklist as it
\* is.
VisitOnce ==
  /\ NoDuplicates(hist.pushed)
  /\ {hist.pushed[i] : i \in 1..Len(hist.pushed)} = Registered
  /\ pc # "failed" => hist.pushed = Begun \o files
  /\ NoDuplicates(Begun)
  /\ written > 0 =>
       /\ \A f \in Registered : Count([i \in 1..Len(modules) |-> modules[i].file], f) = 1
       /\ Len(modules) = Cardinality(Registered)

NeverRequeued ==
  /\ Registered \subseteq DOMAIN moduleToId'
  /\ DOMAIN moduleToId' = Registered =>
       \/ files' = files
       \/ (pc = "loop" /\ files' = Tail(files))
  /\ \A f \in Registered : Count(files', f) <= Count(files, f)

C16_VisitOnce == []VisitOnce /\ [][NeverRequeued]_vars

\* A written build in which a path was the target of three import edges,
\* one of them from itself or from a module it imports.
C16_Witness ==
  /\ written > 0
  /\ \E f \in Registered :
       /\ Cardinality({e \in DepEntries : e.val = moduleToId[f]}) >= 3
       /\ f \in Closure(Edges(f))

\* The distinct specifier values among a file's top-level imports.
Specifiers(file) == {world.src[file][j].v : j \in 1..Len(world.src[file])}

\* C17: the dependency table of every compiled module has exactly one
\* entry per distinct specifier among the module's top-level imports, and
\* each entry carries the identity of the path the specifier resolves to
\* from that module, be the target new, registered before, the module
\* itself or the entry file.
C17_DependencyTable ==
  \A i \in 1..Len(modules) :
    LET m == modules[i] IN
    /\ {m.deps[j].key : j \in 1..Len(m.deps)} = Specifiers(m.file)
    /\ Len(m.deps) = Cardinality(Specifiers(m.file))
    /\ \A j \in 1..Len(m.deps) :
         /\ ResolveValue(m.deps[j].key, m.file) # {}
         /\ \A f \in ResolveValue(m.deps[j].key, m.file) :
              f \in Registered /\ moduleToId[f] = m.deps[j].val

\* Compiled modules among which one imports the same specifier twice and
\* another imports itself or the entry file.
C17_Witness ==
  /\ \E i \in 1..Len(modules) :
       Len(world.src[modules[i].file]) > Len(modules[i].deps)
  /\ \E i \in 1..Len(modules) : \E j \in 1..Len(modules[i].deps) :
       modules[i].id # 0 /\ modules[i].deps[j].val \in {0, modules[i].id}

\* C18: when the build has completed, the i-th compiled module (from 0)
\* carries identity i, and the module table is emitted in that order, the
\* entry module first.
C18_IdentityOrder ==
  written > 0 =>
    /\ \A i \in 1..Len(modules) : modules[i].id = i - 1
    /\ Len(outFile) = Len(modules)
    /\ \A i \in 1..Len(outFile) : outFile[i].id = i - 1
    /\ outFile # <<>> /\ TableGet(0).body = Transpile(world.src[entryFile])

\* A completed build of four modules in which a module found second is
\* imported by the module found first.
C18_Witness ==
  /\ written > 0
  /\ Len(outFile) = 4
  /\ \E j \in 1..Len(outFile[2].deps) : outFile[2].deps[j].val > 1

\* The paths at shortest import distance 0, 1, 2, ... from the entry file:
\* Levels(frontier, seen) lists frontier and the levels after it.
RECURSIVE Levels(_, _)
Levels(frontier, seen) ==
  IF frontier = {} THEN <<>>
  ELSE <<frontier>> \o Levels(UNION {Edges(x) : x \in frontier} \ (seen \cup frontier),
                              seen \cup frontier)

\* One more than the shortest import distance of f from the entry file;
\* 0 when no chain of import edges leads from the entry file to f.
LevelOf(f, levels) ==
  IF \E n \in 1..Len(levels) : f \in levels[n]
  THEN CHOOSE n \in 1..Len(levels) : f \in levels[n]
  ELSE 0

\* C19: the files are compiled in the order they were appended to the
\* worklist, and of two registered paths the one at the smaller shortest
\* import distance from the entry file has the smaller identity.
C19_BreadthFirst ==
  LET levels == Levels({entryFile}, {}) IN
  /\ \A i \in 1..Len(Begun) : Begun[i] = hist.pushed[i]
  /\ \A f, g \in Registered :
       /\ LevelOf(f, levels) # 0
       /\ LevelOf(f, levels) < LevelOf(g, levels) => moduleToId[f] < moduleToId[g]

\* A completed build with two paths at distance 1 and a path at distance 2
\* that the first of them imports.
C19_Witness ==
  LET levels == Levels({entryFile}, {}) IN
  /\ written > 0
  /\ Len(levels) = 3
  /\ \E f, g \in levels[2] : \E h \in levels[3] :
       /\ f # g /\ {f, g, h} \subseteq Registered
       /\ moduleToId[f] < moduleToId[g]
       /\ h \in Edges(f)

\* C20: in a written artifact every identity that is a value of a module's
\* dependency table is the key of an entry of the module table, and a
\* require of a specifier recorded in the running module's dependency
\* table never fails for want of a factory.
TableClosed ==
  written > 0 =>
    \A i \in 1..Len(outFile) : \A j \in 1..Len(outFile[i].deps) :
      TableHas(outFile[i].deps[j].val)

RequireFindsFactory ==
  (AtRequire /\ MapHas(TableGet(Top.id).deps, Body(Top)[Top.i])) =>
    ~(pc' = "crashed" /\ err' = "TypeError")

C20_NoDanglingIdentity == []TableClosed /\ [][RequireFindsFactory]_vars

\* A finished run of an artifact of at least three modules in which the
\* module with the last identity was required through a dependency table.
C20_Witness ==
  /\ pc = "ran"
  /\ Len(outFile) >= 3
  /\ Count(hist.calls, Len(outFile) - 1) >= 1
  /\ \E i \in 1..Len(outFile) : \E j \in 1..Len(outFile[i].deps) :
       outFile[i].deps[j].val = Len(outFile) - 1

====
